---- MODULE Spec2Model ----
(***************************************************************************)
(* A model of the Synacor virtual machine of src/vm.py: the byte image,    *)
(* the eight registers, the stack, the program counter, the line-buffered  *)
(* input, the output stream and the fetch-decode-execute loop of           *)
(* VirtualMachine.run, one action per opcode.  A Python exception that     *)
(* leaves run() is recorded in exc; the loop takes another step only while *)
(* the running flag is set and no exception has propagated.                *)
(***************************************************************************)
EXTENDS Integers, Sequences, FiniteSets, TLC

VARIABLES
    executable,   \* self._executable: the image the VM was constructed with (bytes)
    memory,       \* self._memory: bytes, two per word, little-endian
    stack,        \* self._stack
    pc,           \* self._pc
    registers,    \* self._registers, r0..r7 as 0..7
    running,      \* self.running
    stdin,        \* self._stdin: the rest of the line being consumed
    sysStdin,     \* sys.stdin: the lines not yet read
    stdout,       \* sys.stdout: the code points written so far
    exc,          \* the exception that propagated out of run(), or "none"
    instruction,  \* the instruction decoded last: opcode, raw operands, address
    before,       \* registers, stack and pushedAt as they were when it was fetched
    pushedAt      \* per stack entry: address of the call that pushed it, -1 for push

vars == <<executable, memory, stack, pc, registers, running, stdin, sysStdin,
          stdout, exc, instruction, before, pushedAt>>

(***************************************************************************)
(* Bounds of the model.                                                    *)
(***************************************************************************)
MaxStack == 3     \* push and call are not taken beyond this stack depth
MaxGrow == 2      \* wmem is not taken once memory grew by this many words
MaxSeq == 3       \* length of the generated push/pop sequences

(***************************************************************************)
(* Python helpers.                                                         *)
(***************************************************************************)
Min(a, b) == IF a < b THEN a ELSE b

\* s[lo:hi] for 0 <= lo, 0 <= hi: both ends are clamped to len(s)
PySlice(s, lo, hi) == SubSeq(s, Min(lo, Len(s)) + 1, Min(hi, Len(s)))

\* struct.unpack('<%dH' % n, raw) for len(raw) = 2n
StructUnpack(raw) ==
    [i \in 1..(Len(raw) \div 2) |-> raw[2 * i - 1] + 256 * raw[2 * i]]

\* struct.pack('<H', data) for 0 <= data <= 65535
StructPack(data) == <<data % 256, data \div 256>>

\* struct.pack('<%dH' % len(words), *words): the image file of a word list
PackImage(words) ==
    [i \in 1..(2 * Len(words)) |->
        IF i % 2 = 1 THEN words[(i + 1) \div 2] % 256
                     ELSE words[i \div 2] \div 256]

RECURSIVE BitAnd(_, _)
\* x & y for x, y >= 0
BitAnd(x, y) ==
    IF x = 0 \/ y = 0 THEN 0
    ELSE (x % 2) * (y % 2) + 2 * BitAnd(x \div 2, y \div 2)

RECURSIVE BitOr(_, _)
\* x | y for x, y >= 0
BitOr(x, y) ==
    IF x = 0 THEN y
    ELSE IF y = 0 THEN x
    ELSE (IF x % 2 = 1 \/ y % 2 = 1 THEN 1 ELSE 0) + 2 * BitOr(x \div 2, y \div 2)

\* ~x & 0x7fff: ~x is -x-1 in two's complement of unbounded width, and the
\* mask keeps its low 15 bits
Invert15(x) == BitAnd((-x - 1) % 32768, 32767)

Ok(v) == [err |-> "none", val |-> v]
Raise(e) == [err |-> e, val |-> 0]

(***************************************************************************)
(* VirtualMachine: registers, operands, memory.                            *)
(***************************************************************************)
\* VirtualMachine.getValueOrReg
getValueOrReg(regs, value) ==
    IF 0 <= value /\ value <= 32767 THEN Ok(value)
    ELSE IF value >= 32768 /\ value <= 32775 THEN Ok(regs[value - 32768])
    ELSE Raise("InvalidValueError")

\* VirtualMachine.setRegister that stores into the following register
setRegisterOffByOne(regs, reg, value) ==
    IF reg >= 32768 /\ reg <= 32775
    THEN Ok([regs EXCEPT ![(reg - 32767) % 8] = value])
    ELSE [err |-> "NameError", val |-> regs]

\* VirtualMachine.setRegister; the name InvalidRegisterError is not defined
\* in the module, so the raise statement raises NameError
setRegister(regs, reg, value) ==
    IF reg >= 32768 /\ reg <= 32775
    THEN Ok([regs EXCEPT ![reg - 32768] = value])
    ELSE [err |-> "NameError", val |-> regs]

\* VirtualMachine.readMemory that reads zero words past the end of memory
readMemoryZeroFilled(mem, address, words) ==
    IF words = 0 \/ words > 32768 THEN [err |-> "InvalidReadError", val |-> <<>>]
    ELSE Ok([i \in 1..words |->
                IF 2 * (address + i) <= Len(mem)
                THEN mem[2 * (address + i) - 1] + 256 * mem[2 * (address + i)]
                ELSE 0])

\* VirtualMachine.readMemory
readMemory(mem, address, words) ==
    IF words = 0 \/ words > 32768 THEN [err |-> "InvalidReadError", val |-> <<>>]
    ELSE LET raw == PySlice(mem, address * 2, address * 2 + 2 * words)
         IN  IF Len(raw) # 2 * words
             THEN [err |-> "struct.error", val |-> <<>>]
             ELSE Ok(StructUnpack(raw))

\* VirtualMachine.writeMemory
writeMemory(mem, address, data) ==
    IF data < 0 \/ data > 65535 THEN [err |-> "struct.error", val |-> mem]
    ELSE Ok(PySlice(mem, 0, address * 2) \o StructPack(data)
            \o PySlice(mem, address * 2 + 2, Len(mem)))

(***************************************************************************)
(* Instruction catalog and decode.                                         *)
(***************************************************************************)
\* ARGS of the class registered under each OPCODE
ARGS(op) ==
    CASE op \in {0, 18, 21} -> 0
      [] op \in {2, 3, 6, 17, 19, 20} -> 1
      [] op \in {1, 7, 8, 14, 15, 16} -> 2
      [] op \in {4, 5, 9, 10, 11, 12, 13} -> 3

\* a registry in which the last class, Noop, was not registered
RegistryWithoutNoop == 0..20

\* the opcodes a word read from memory can find in Instruction.registry
Registry == 0..21

\* Instruction.decode
decode ==
    LET o == readMemory(memory, pc, 1)
    IN  IF o.err # "none" THEN [err |-> o.err, op |-> -1, args |-> <<>>]
        ELSE IF o.val[1] \notin Registry
             THEN [err |-> "KeyError", op |-> o.val[1], args |-> <<>>]
        ELSE IF ARGS(o.val[1]) = 0
             THEN [err |-> "none", op |-> o.val[1], args |-> <<>>]
        ELSE LET a == readMemory(memory, pc + 1, ARGS(o.val[1]))
             IN  [err |-> a.err, op |-> o.val[1], args |-> a.val]

\* a loop condition that ignores the running flag
LoopingIgnoringFlag == exc = "none"

\* the condition of the while loop of run(), and no exception has left it
Looping == running /\ exc = "none"

\* the instruction object run() holds, and the state it was fetched in
Fetched(d) ==
    /\ instruction' = [op |-> d.op, args |-> d.args, at |-> pc]
    /\ before' = [registers |-> registers, stack |-> stack, pushedAt |-> pushedAt]

Decoded(op) == Looping /\ decode.err = "none" /\ decode.op = op

\* Instruction.incpc
NextPc(op) == pc + 1 + ARGS(op)

\* VirtualMachine.push
push(s, val) == Append(s, val)

\* VirtualMachine.pop that yields 0 from an empty stack instead of raising
popOrZero(s) ==
    IF s = <<>> THEN [err |-> "none", val |-> 0, rest |-> s]
    ELSE [err |-> "none", val |-> s[Len(s)], rest |-> SubSeq(s, 1, Len(s) - 1)]

\* VirtualMachine.pop: list.pop() raises IndexError on an empty list
pop(s) ==
    IF s = <<>> THEN [err |-> "IndexError", val |-> 0, rest |-> s]
    ELSE [err |-> "none", val |-> s[Len(s)], rest |-> SubSeq(s, 1, Len(s) - 1)]

\* two operands resolved in this order: the first failure, else both values
Resolve2(regs, first, second) ==
    LET x == getValueOrReg(regs, first)
        y == getValueOrReg(regs, second)
    IN  IF x.err # "none" THEN x
        ELSE IF y.err # "none" THEN y
        ELSE Ok(<<x.val, y.val>>)

\* the tail of a register-writing exec with incpc run even after a raise
StoreResultAdvancing(d, v) ==
    LET w == IF v.err = "none" THEN setRegister(registers, d.args[1], v.val)
             ELSE [err |-> v.err, val |-> registers]
    IN  /\ registers' = w.val
        /\ exc' = w.err
        /\ pc' = NextPc(d.op)

\* the tail of every register-writing exec, setRegister(a, v), followed by
\* Instruction.incpc when nothing was raised
StoreResult(d, v) ==
    LET w == IF v.err = "none" THEN setRegister(registers, d.args[1], v.val)
             ELSE [err |-> v.err, val |-> registers]
    IN  /\ registers' = w.val
        /\ exc' = w.err
        /\ pc' = IF w.err = "none" THEN NextPc(d.op) ELSE pc

\* the incpc of the jump family: self._vm.pc = <t>
Jump(t) ==
    /\ exc' = t.err
    /\ pc' = IF t.err = "none" THEN t.val ELSE pc

\* the values the exec methods compute from their resolved operands
EqValue(b, c) == Ok(IF b = c THEN 1 ELSE 0)
GtValue(b, c) == Ok(IF b > c THEN 1 ELSE 0)
\* Add.exec without the reduction modulo 2**15
AddValueNoWrap(b, c) == Ok(b + c)
AddValue(b, c) == Ok((b + c) % 2^15)
MultValue(b, c) == Ok((b * c) % 2^15)
\* Mod.exec with a zero divisor yielding zero
ModValueZeroIsZero(b, c) == IF c = 0 THEN Ok(0) ELSE Ok(b % c)
ModValue(b, c) == IF c = 0 THEN Raise("ZeroDivisionError") ELSE Ok(b % c)
AndValue(b, c) == Ok(BitAnd(b, c))
OrValue(b, c) == Ok(BitOr(b, c))
NotValue(b) == Ok(Invert15(b))

\* the conditions of Jt.incpc and Jf.incpc
JtTaken(a) == a # 0
\* Jf.incpc with the test of Jt.incpc
JfTakenAsJt(a) == a # 0
JfTaken(a) == a = 0

\* Ret.incpc resolves the popped word, and resolves the result again
RetTarget(regs, val) ==
    LET a == getValueOrReg(regs, val)
    IN  IF a.err # "none" THEN a ELSE getValueOrReg(regs, a.val)

(***************************************************************************)
(* One action per opcode: exec, then incpc, of the decoded instruction.    *)
(***************************************************************************)
Halt ==
    /\ Decoded(0)
    /\ Fetched(decode)
    /\ running' = FALSE
    /\ pc' = NextPc(0)
    /\ UNCHANGED <<executable, memory, stack, pushedAt, registers, stdin,
                   sysStdin, stdout, exc>>

Set ==
    /\ Decoded(1)
    /\ Fetched(decode)
    /\ StoreResult(decode, getValueOrReg(registers, decode.args[2]))
    /\ UNCHANGED <<executable, memory, stack, pushedAt, running, stdin,
                   sysStdin, stdout>>

Push ==
    /\ Decoded(2)
    /\ Len(stack) < MaxStack
    /\ Fetched(decode)
    /\ LET v == getValueOrReg(registers, decode.args[1])
       IN  /\ exc' = v.err
           /\ IF v.err = "none"
              THEN /\ stack' = push(stack, v.val)
                   /\ pushedAt' = Append(pushedAt, -1)
                   /\ pc' = NextPc(2)
              ELSE UNCHANGED <<stack, pushedAt, pc>>
    /\ UNCHANGED <<executable, memory, registers, running, stdin, sysStdin,
                   stdout>>

Pop ==
    /\ Decoded(3)
    /\ Fetched(decode)
    /\ LET p == pop(stack)
       IN  /\ stack' = p.rest
           /\ pushedAt' = SubSeq(pushedAt, 1, Len(p.rest))
           /\ StoreResult(decode,
                  IF p.err # "none" THEN p ELSE getValueOrReg(registers, p.val))
    /\ UNCHANGED <<executable, memory, running, stdin, sysStdin, stdout>>

Eq ==
    /\ Decoded(4)
    /\ Fetched(decode)
    /\ LET o == Resolve2(registers, decode.args[2], decode.args[3])
       IN  StoreResult(decode, IF o.err # "none" THEN o
                               ELSE EqValue(o.val[1], o.val[2]))
    /\ UNCHANGED <<executable, memory, stack, pushedAt, running, stdin,
                   sysStdin, stdout>>

Gt ==
    /\ Decoded(5)
    /\ Fetched(decode)
    /\ LET o == Resolve2(registers, decode.args[2], decode.args[3])
       IN  StoreResult(decode, IF o.err # "none" THEN o
                               ELSE GtValue(o.val[1], o.val[2]))
    /\ UNCHANGED <<executable, memory, stack, pushedAt, running, stdin,
                   sysStdin, stdout>>

Jmp ==
    /\ Decoded(6)
    /\ Fetched(decode)
    /\ Jump(getValueOrReg(registers, decode.args[1]))
    /\ UNCHANGED <<executable, memory, stack, pushedAt, registers, running,
                   stdin, sysStdin, stdout>>

Jt ==
    /\ Decoded(7)
    /\ Fetched(decode)
    /\ LET a == getValueOrReg(registers, decode.args[1])
       IN  IF a.err # "none" THEN Jump(a)
           ELSE IF JtTaken(a.val)
                THEN Jump(getValueOrReg(registers, decode.args[2]))
                ELSE Jump(Ok(NextPc(7)))
    /\ UNCHANGED <<executable, memory, stack, pushedAt, registers, running,
                   stdin, sysStdin, stdout>>

Jf ==
    /\ Decoded(8)
    /\ Fetched(decode)
    /\ LET a == getValueOrReg(registers, decode.args[1])
       IN  IF a.err # "none" THEN Jump(a)
           ELSE IF JfTaken(a.val)
                THEN Jump(getValueOrReg(registers, decode.args[2]))
                ELSE Jump(Ok(NextPc(8)))
    /\ UNCHANGED <<executable, memory, stack, pushedAt, registers, running,
                   stdin, sysStdin, stdout>>

Add ==
    /\ Decoded(9)
    /\ Fetched(decode)
    /\ LET o == Resolve2(registers, decode.args[2], decode.args[3])
       IN  StoreResult(decode, IF o.err # "none" THEN o
                               ELSE AddValue(o.val[1], o.val[2]))
    /\ UNCHANGED <<executable, memory, stack, pushedAt, running, stdin,
                   sysStdin, stdout>>

Mult ==
    /\ Decoded(10)
    /\ Fetched(decode)
    /\ LET o == Resolve2(registers, decode.args[2], decode.args[3])
       IN  StoreResult(decode, IF o.err # "none" THEN o
                               ELSE MultValue(o.val[1], o.val[2]))
    /\ UNCHANGED <<executable, memory, stack, pushedAt, running, stdin,
                   sysStdin, stdout>>

Mod ==
    /\ Decoded(11)
    /\ Fetched(decode)
    /\ LET o == Resolve2(registers, decode.args[2], decode.args[3])
       IN  StoreResult(decode, IF o.err # "none" THEN o
                               ELSE ModValue(o.val[1], o.val[2]))
    /\ UNCHANGED <<executable, memory, stack, pushedAt, running, stdin,
                   sysStdin, stdout>>

And ==
    /\ Decoded(12)
    /\ Fetched(decode)
    /\ LET o == Resolve2(registers, decode.args[2], decode.args[3])
       IN  StoreResult(decode, IF o.err # "none" THEN o
                               ELSE AndValue(o.val[1], o.val[2]))
    /\ UNCHANGED <<executable, memory, stack, pushedAt, running, stdin,
                   sysStdin, stdout>>

Or ==
    /\ Decoded(13)
    /\ Fetched(decode)
    /\ LET o == Resolve2(registers, decode.args[2], decode.args[3])
       IN  StoreResult(decode, IF o.err # "none" THEN o
                               ELSE OrValue(o.val[1], o.val[2]))
    /\ UNCHANGED <<executable, memory, stack, pushedAt, running, stdin,
                   sysStdin, stdout>>

Not ==
    /\ Decoded(14)
    /\ Fetched(decode)
    /\ LET b == getValueOrReg(registers, decode.args[2])
       IN  StoreResult(decode, IF b.err # "none" THEN b ELSE NotValue(b.val))
    /\ UNCHANGED <<executable, memory, stack, pushedAt, running, stdin,
                   sysStdin, stdout>>

Rmem ==
    /\ Decoded(15)
    /\ Fetched(decode)
    /\ LET b == getValueOrReg(registers, decode.args[2])
           m == IF b.err # "none" THEN [err |-> b.err, val |-> <<0>>]
                ELSE readMemory(memory, b.val, 1)
       IN  StoreResult(decode, IF m.err # "none" THEN Raise(m.err) ELSE Ok(m.val[1]))
    /\ UNCHANGED <<executable, memory, stack, pushedAt, running, stdin,
                   sysStdin, stdout>>

Wmem ==
    /\ Decoded(16)
    /\ Fetched(decode)
    /\ LET o == Resolve2(registers, decode.args[1], decode.args[2])
           w == IF o.err # "none" THEN o
                ELSE writeMemory(memory, o.val[1], o.val[2])
       IN  /\ exc' = w.err
           /\ IF w.err = "none"
              THEN /\ Len(w.val) > Len(memory)
                        => Len(memory) < Len(executable) + 2 * MaxGrow
                   /\ memory' = w.val
                   /\ pc' = NextPc(16)
              ELSE UNCHANGED <<memory, pc>>
    /\ UNCHANGED <<executable, stack, pushedAt, registers, running, stdin,
                   sysStdin, stdout>>

Call ==
    /\ Decoded(17)
    /\ Len(stack) < MaxStack
    /\ Fetched(decode)
    /\ stack' = push(stack, pc + 1 + ARGS(17))
    /\ pushedAt' = Append(pushedAt, pc)
    /\ Jump(getValueOrReg(registers, decode.args[1]))
    /\ UNCHANGED <<executable, memory, registers, running, stdin, sysStdin,
                   stdout>>

Ret ==
    /\ Decoded(18)
    /\ Fetched(decode)
    /\ LET p == pop(stack)
       IN  /\ stack' = p.rest
           /\ pushedAt' = SubSeq(pushedAt, 1, Len(p.rest))
           /\ Jump(IF p.err # "none" THEN p ELSE RetTarget(registers, p.val))
    /\ UNCHANGED <<executable, memory, registers, running, stdin, sysStdin,
                   stdout>>

\* chr(v) that keeps only the low byte of the code
chrLowByte(v) == IF v > 1114111 THEN Raise("ValueError") ELSE Ok(v % 256)

\* chr(v): the character with code point v, ValueError outside 0..0x10ffff
chr(v) == IF v > 1114111 THEN Raise("ValueError") ELSE Ok(v)

\* whether the text layer of sys.stdout encodes a lone surrogate or raises
\* depends on the stream's error handler
Out ==
    /\ Decoded(19)
    /\ Fetched(decode)
    /\ LET a == getValueOrReg(registers, decode.args[1])
           c == IF a.err # "none" THEN a ELSE chr(a.val)
       IN  \E written \in IF a.err = "none" /\ a.val >= 55296 /\ a.val <= 57343
                          THEN BOOLEAN ELSE {TRUE} :
              LET e == IF c.err # "none" THEN c.err
                       ELSE IF ~written THEN "UnicodeEncodeError"
                       ELSE "none"
              IN  /\ exc' = e
                  /\ IF e = "none"
                     THEN stdout' = Append(stdout, c.val) /\ pc' = NextPc(19)
                     ELSE UNCHANGED <<stdout, pc>>
    /\ UNCHANGED <<executable, memory, stack, pushedAt, registers, running,
                   stdin, sysStdin>>

\* the stdin property that takes a fresh line on every read, dropping the
\* rest of the line it was consuming
stdinPropertyUnbuffered(buf, src) ==
    LET line == IF src = <<>> THEN buf ELSE Head(src)
        rest == IF src = <<>> THEN src ELSE Tail(src)
    IN  IF line = <<>>
        THEN [err |-> "IndexError", val |-> 0, buf |-> line, src |-> rest]
        ELSE [err |-> "none", val |-> Head(line), buf |-> Tail(line), src |-> rest]

\* the stdin property: refill the buffer with readline() when it is empty
\* ('' at end of input), then take its first character
stdinProperty(buf, src) ==
    LET refill == buf = <<>>
        line == IF ~refill THEN buf
                ELSE IF src = <<>> THEN <<>> ELSE Head(src)
        rest == IF refill /\ src # <<>> THEN Tail(src) ELSE src
    IN  IF line = <<>>
        THEN [err |-> "IndexError", val |-> 0, buf |-> line, src |-> rest]
        ELSE [err |-> "none", val |-> Head(line), buf |-> Tail(line), src |-> rest]

\* ord() of the character taken from the stdin property, then setRegister
In ==
    /\ Decoded(20)
    /\ Fetched(decode)
    /\ LET c == stdinProperty(stdin, sysStdin)
       IN  /\ stdin' = c.buf
           /\ sysStdin' = c.src
           /\ StoreResult(decode, [err |-> c.err, val |-> c.val])
    /\ UNCHANGED <<executable, memory, stack, pushedAt, running, stdout>>

Noop ==
    /\ Decoded(21)
    /\ Fetched(decode)
    /\ pc' = NextPc(21)
    /\ UNCHANGED <<executable, memory, stack, pushedAt, registers, running,
                   stdin, sysStdin, stdout, exc>>

\* Instruction.decode raises: the fetch is past the end of memory, or the
\* word is not a registered opcode; run() is left with the exception
DecodeError ==
    /\ Looping
    /\ decode.err # "none"
    /\ exc' = decode.err
    /\ UNCHANGED <<executable, memory, stack, pushedAt, pc, registers, running,
                   stdin, sysStdin, stdout, instruction, before>>

(***************************************************************************)
(* The program images and inputs the VM is constructed and run with.       *)
(***************************************************************************)
\* operand words: literals, register references, and a word that is neither
Operands == {0, 1, 32767, 32768, 32769, 32776}

\* code run before the instruction under test: nothing; r1 = 3 and a literal
\* on the stack; r0 = 32769 (read from the image), that word on the stack
\* and r1 = 9
Prefixes ==
    { <<>>,
      <<1, 32769, 3, 2, 32767>>,
      <<15, 32768, 6, 2, 32768, 1, 32769, 9>> }

\* every instruction of the catalog over Operands
Instructions ==
    UNION { { <<op>> \o a : a \in IF ARGS(op) = 0 THEN {<<>>}
                                  ELSE IF ARGS(op) = 1 THEN {<<x>> : x \in Operands}
                                  ELSE IF ARGS(op) = 2 THEN Operands \X Operands
                                  ELSE Operands \X Operands \X Operands }
            : op \in Registry }

\* a prefix, one instruction, halt
SingleImages == { p \o i \o <<0>> : p \in Prefixes, i \in Instructions }

RECURSIVE Concats(_, _)
\* the concatenations of 1..n elements of the set of sequences S
Concats(S, n) ==
    IF n = 0 THEN {}
    ELSE S \cup { a \o b : a \in S, b \in Concats(S, n - 1) }

\* a prefix, up to MaxSeq pushes and pops, halt
StackImages ==
    { p \o q \o <<0>> :
        p \in Prefixes,
        q \in Concats({<<2, 5>>, <<2, 32768>>, <<3, 32768>>, <<3, 32769>>}, MaxSeq) }

\* a prefix, wmem a b, rmem c a, halt: a is an address inside the image (the
\* rmem itself, the halt), the first address past it, the one after, or a
\* register
MemoryImages ==
    { p \o <<16, a, b, 15, c, a, 0>> :
        p \in Prefixes,
        a \in {0, 3, 6, 7, 8, 13, 14, 15, 16, 32768, 32769},
        b \in Operands,
        c \in {32768, 32770} }

\* 32768 words: jmp 32766 / ret at 2 / call 2 in the last two words
LargeImage ==
    [i \in 1..32768 |->
        CASE i = 1 -> 6  [] i = 2 -> 32766  [] i = 3 -> 18
          [] i = 32767 -> 17  [] i = 32768 -> 2  [] OTHER -> 0]

Scenario1 == <<0>>
Scenario2 == <<19, 65, 0>>
Scenario3 == <<9, 32768, 32767, 1, 19, 32768, 0>>
Scenario4 == <<17, 9, 21, 21, 21, 19, 65, 18, 0>>

OtherImages ==
    { Scenario1, Scenario2, Scenario3, Scenario4,
      <<18>>, <<3, 32768>>, <<99>>, <<1, 32768>>,
      <<17, 0>>,                          \* call 0 for ever
      <<17, 3, 0, 18>>,                   \* call 3; halt; ret
      <<17, 5, 21, 21, 21, 19, 65, 18, 0>>,
      <<2, 4, 18, 0, 21, 0>>,             \* push 4; ret
      <<16, 32767, 1, 6, 0>>,             \* wmem 32767 1; jmp 0
      <<6, 0>>,                           \* jmp 0
      <<15, 32768, 5, 19, 32768, 55296>>, \* out of a surrogate code point
      <<15, 32768, 7, 2, 32768, 18, 0, 32769>>, \* ret to a register reference
      \* r0 = 32769, r2 = 32768, push r2, ret: the popped word names r0,
      \* which names r1
      <<15, 32768, 9, 15, 32770, 1, 2, 32770, 18, 32769>>,
      \* r0 = 32776 pushed, then popped by ret and by pop: not resolvable
      <<15, 32768, 6, 2, 32768, 18, 32776>>,
      <<15, 32768, 7, 2, 32768, 3, 32769, 32776>> }

\* in r0; in r1; in 5; halt / in r0; wmem 0 r0; out r0; jmp 0 /
\* in r0; out r0; jmp 0
InputImages ==
    { <<20, 32768, 20, 32769, 20, 5, 0>>,
      <<20, 32768, 16, 0, 32768, 19, 32768, 6, 0>>,
      <<20, 32768, 19, 32768, 6, 0>> }

\* the lines of sys.stdin, as code points
Inputs ==
    { <<>>, << <<10>> >>, << <<97, 10>>, <<98>> >>, << <<35328, 65536, 10>> >> }

\* image files: whole words, and for the memory images also a file with one
\* byte after the last word
Programs ==
    { <<PackImage(w), <<>>>> :
        w \in SingleImages \cup StackImages \cup MemoryImages \cup OtherImages }
    \cup { <<PackImage(w) \o <<7>>, <<>>>> : w \in MemoryImages }
    \cup { <<PackImage(w), i>> : w \in InputImages, i \in Inputs }

\* VirtualMachine.__init__
Construct(image, input) ==
    /\ executable = image
    /\ memory = image
    /\ sysStdin = input
    /\ stack = <<>>
    /\ pushedAt = <<>>
    /\ pc = 0
    /\ registers = [r \in 0..7 |-> 0]
    /\ running = TRUE
    /\ stdin = <<>>
    /\ stdout = <<>>
    /\ exc = "none"
    /\ instruction = [op |-> -1, args |-> <<>>, at |-> 0]
    /\ before = [registers |-> [r \in 0..7 |-> 0], stack |-> <<>>,
                 pushedAt |-> <<>>]

Init ==
    \/ \E p \in Programs : Construct(p[1], p[2])
    \/ Construct(PackImage(LargeImage), <<>>)

\* VirtualMachine.run: one iteration of the loop
Next ==
    \/ Halt \/ Set \/ Push \/ Pop \/ Eq \/ Gt \/ Jmp \/ Jt \/ Jf \/ Add
    \/ Mult \/ Mod \/ And \/ Or \/ Not \/ Rmem \/ Wmem \/ Call \/ Ret
    \/ Out \/ In \/ Noop \/ DecodeError

Spec == Init /\ [][Next]_vars

(***************************************************************************)
(* Properties.                                                             *)
(***************************************************************************)
\* the operand x as the last decoded instruction resolved it
Resolved(x) == getValueOrReg(before.registers, x).val

\* the last decoded instruction has opcode op and ran without raising, and
\* the next fetch has not failed
Completed(op) == instruction.op = op /\ exc = "none"

\* bit i of x
Bit(x, i) == (x \div 2^i) % 2

\* the word at address i of mem, or the failure of reading it
WordAt(mem, i) == readMemory(mem, i, 1)

\* the run loop has ended: halted, or left by an exception
Terminated == ~Looping

\* C1: every register holds a word in [0, 32767] in every reachable state
RegistersHoldWords == \A r \in 0..7 : registers[r] \in 0..32767

\* C2: after add, mult or not with a valid destination a, reg[a] is the sum
\* or the product of the resolved operands modulo 32768, or the 15-bit
\* complement of the resolved operand, and lies in [0, 32767]
ArithmeticResults ==
    LET a == instruction.args[1] - 32768
    IN  /\ Completed(9) =>
              /\ registers[a] = (Resolved(instruction.args[2])
                                 + Resolved(instruction.args[3])) % 32768
              /\ registers[a] \in 0..32767
        /\ Completed(10) =>
              /\ registers[a] = (Resolved(instruction.args[2])
                                 * Resolved(instruction.args[3])) % 32768
              /\ registers[a] \in 0..32767
        /\ Completed(14) =>
              /\ \A i \in 0..14 :
                    Bit(registers[a], i) # Bit(Resolved(instruction.args[2]), i)
              /\ registers[a] \in 0..32767

\* C2 witness: an add whose sum wrapped around has completed
AddWrapped ==
    /\ Completed(9)
    /\ Resolved(instruction.args[2]) + Resolved(instruction.args[3]) > 32767

\* C3: memory has as many words in every reachable state as the loaded image
MemoryNeverResized == Len(memory) \div 2 = Len(executable) \div 2

\* C4: wmem a b immediately followed by rmem c a at the same address leaves
\* in register c the value b resolved to when wmem ran, and wmem changes no
\* memory word other than the one at that address
WmemRmemRoundTrip ==
    [][ /\ ( /\ Completed(16)
             /\ Decoded(15)
             /\ decode.args[1] \in 32768..32775
             /\ getValueOrReg(registers, decode.args[2])
                    = Ok(Resolved(instruction.args[1])) )
           => registers'[decode.args[1] - 32768] = Resolved(instruction.args[2])
        /\ (Decoded(16) /\ exc' = "none")
           => \A i \in 0..(Len(memory') \div 2) :
                 i # getValueOrReg(registers, decode.args[1]).val
                    => WordAt(memory', i) = WordAt(memory, i)
      ]_vars

\* C5: push puts the resolved operand on the stack, and a pop on a non-empty
\* stack writes into reg[a] exactly the word the matching push put there
StackRoundTrip ==
    /\ Completed(2) =>
          stack = Append(before.stack, Resolved(instruction.args[1]))
    /\ ( /\ instruction.op = 3
         /\ instruction.args[1] \in 32768..32775
         /\ before.stack # <<>>
         /\ before.pushedAt[Len(before.pushedAt)] = -1 )
       => registers[instruction.args[1] - 32768] = before.stack[Len(before.stack)]

\* C6: jt a b at p sets pc to resolve(b) when resolve(a) # 0 and to p+3
\* otherwise, jf a b does so when resolve(a) = 0, jmp a sets pc to
\* resolve(a), and none of them changes registers, memory or stack
JumpDeterminism ==
    [][ LET a == getValueOrReg(registers, decode.args[1]).val
            b == getValueOrReg(registers, decode.args[2]).val
        IN  /\ (Decoded(6) /\ exc' = "none") => pc' = a
            /\ (Decoded(7) /\ exc' = "none") => pc' = IF a # 0 THEN b ELSE pc + 3
            /\ (Decoded(8) /\ exc' = "none") => pc' = IF a = 0 THEN b ELSE pc + 3
            /\ (Decoded(6) \/ Decoded(7) \/ Decoded(8))
               => UNCHANGED <<registers, memory, stack>>
      ]_vars

\* C6 witness: a jf whose operand resolved to 0 has jumped away from the
\* next instruction
JfJumped ==
    /\ Completed(8)
    /\ Resolved(instruction.args[1]) = 0
    /\ pc = Resolved(instruction.args[2])
    /\ pc # instruction.at + 3

\* C7: call a at p pushes exactly p+2 and sets pc to resolve(a); a ret that
\* finds that word on top of the stack sets pc to p+2 and leaves the stack
\* as it was before the call
CallRetContract ==
    /\ Completed(17) =>
          /\ stack = Append(before.stack, instruction.at + 2)
          /\ pc = Resolved(instruction.args[1])
    /\ ( /\ instruction.op = 18
         /\ before.stack # <<>>
         /\ before.pushedAt[Len(before.pushedAt)] >= 0 )
       => /\ pc = before.pushedAt[Len(before.pushedAt)] + 2
          /\ stack = SubSeq(before.stack, 1, Len(before.stack) - 1)

\* C8 as stated: the image of scenario 4 ends halted, without error, with
\* output exactly "A"
Scenario4AsStated ==
    (executable = PackImage(Scenario4) /\ Terminated)
       => exc = "none" /\ ~running /\ stdout = <<65>>

\* C8 amended: the image of scenario 4 calls address 9, one past its last
\* word, and ends in the error state on the next fetch with no output and
\* the return address 2 on the stack
Scenario4CallsPastTheImage ==
    executable = PackImage(Scenario4)
       => /\ stdout = <<>>
          /\ Terminated => /\ exc = "struct.error"
                           /\ running
                           /\ pc = 9
                           /\ stack = <<2>>
                           /\ instruction.op = 17

\* C8 witness: the run of the scenario 4 image has ended
Scenario4Ended == executable = PackImage(Scenario4) /\ Terminated

\* C9: ret on an empty stack leaves the VM halted and without error
RetOnEmptyStackHalts ==
    (instruction.op = 18 /\ before.stack = <<>>) => exc = "none" /\ ~running

\* C10: pop on an empty stack raises the stack underflow, writes no register
\* and leaves the VM in the error state, unhalted; no step is taken from a
\* state the loop has ended in
PopOnEmptyStackFails ==
    [][ /\ Looping
        /\ (Decoded(3) /\ stack = <<>>)
           => /\ exc' = "IndexError"
              /\ running'
              /\ UNCHANGED <<registers, stack, pc, memory>>
      ]_vars

\* C10 witness: a pop was fetched with the stack empty and the run has ended
PoppedEmptyStack ==
    instruction.op = 3 /\ before.stack = <<>> /\ Terminated

\* the source operands the last decoded instruction always resolves
Sources ==
    LET a == instruction.args
    IN  CASE instruction.op \in {2, 6, 7, 8, 17, 19} -> {a[1]}
          [] instruction.op \in {1, 14, 15} -> {a[2]}
          [] instruction.op = 16 -> {a[1], a[2]}
          [] instruction.op \in {4, 5, 9, 10, 11, 12, 13} -> {a[2], a[3]}
          [] OTHER -> {}

\* C11: a source operand in [0, 32767] denotes itself and one in
\* [32768, 32775] the current value of that register; any other source
\* operand fails the instruction with the invalid-operand error; a
\* destination is used raw and one outside [32768, 32775] fails the
\* instruction with the invalid-register error, writing no register
OperandResolution ==
    /\ Completed(1) =>
          registers[instruction.args[1] - 32768]
             = IF instruction.args[2] <= 32767 THEN instruction.args[2]
               ELSE before.registers[instruction.args[2] - 32768]
    /\ Completed(2) =>
          stack[Len(stack)]
             = IF instruction.args[1] <= 32767 THEN instruction.args[1]
               ELSE before.registers[instruction.args[1] - 32768]
    /\ (\E x \in Sources : x > 32775) => exc = "InvalidValueError"
    /\ ( /\ instruction.op \in {1, 4, 5, 9, 10, 12, 13, 14}
         /\ \A x \in Sources : x <= 32775
         /\ instruction.args[1] \notin 32768..32775 )
       => exc = "InvalidRegisterError" /\ registers = before.registers

\* C12: a word at pc outside 0..21 fails the fetch with the decode error and
\* changes nothing else; a word in 0..21 never does
DecodeIsClosed ==
    [][ LET w == WordAt(memory, pc)
        IN  w.err = "none" =>
               IF w.val[1] \in 0..21
               THEN exc' # "KeyError"
               ELSE /\ exc' = "KeyError"
                    /\ UNCHANGED <<registers, memory, stack, pc, running,
                                   stdout, stdin, sysStdin>>
      ]_vars

\* C12 witness: the run ended on a word at pc that is no opcode
UnknownOpcodeFetched ==
    /\ exc = "KeyError"
    /\ WordAt(memory, pc).err = "none"
    /\ WordAt(memory, pc).val[1] \notin 0..21

\* the operand count of each opcode in the instruction table
Arity(op) ==
    CASE op \in {0, 18, 21} -> 0
      [] op \in {2, 3, 6, 17, 19, 20} -> 1
      [] op \in {1, 7, 8, 14, 15, 16} -> 2
      [] OTHER -> 3

\* C13: an instruction that executes without error leaves pc at its own
\* address + 1 + arity, unless it is jmp, call, ret or a taken jt/jf, which
\* leave pc at the resolved target (for ret, the resolution of the popped
\* word)
PcAdvance ==
    [][ \A op \in 0..21 :
          (Decoded(op) /\ exc' = "none") =>
             LET a == getValueOrReg(registers, decode.args[1]).val
                 b == getValueOrReg(registers, decode.args[2]).val
             IN  pc' = CASE op \in {6, 17} -> a
                         [] op = 7 -> IF a # 0 THEN b ELSE pc + 1 + Arity(op)
                         [] op = 8 -> IF a = 0 THEN b ELSE pc + 1 + Arity(op)
                         [] op = 18 ->
                              getValueOrReg(registers, stack[Len(stack)]).val
                         [] OTHER -> pc + 1 + Arity(op)
      ]_vars

\* C14: an out that executes appends exactly the character with code
\* resolve(a) to the output and no other step changes the output; the
\* images of scenarios 1, 2 and 3 end halted with output "", "A" and one NUL
OutputStream ==
    [][ /\ IF Decoded(19) /\ exc' = "none"
           THEN stdout' = Append(stdout,
                                 getValueOrReg(registers, decode.args[1]).val)
           ELSE stdout' = stdout
        /\ ~Looping' =>
              /\ executable = PackImage(Scenario1)
                    => exc' = "none" /\ ~running' /\ stdout' = <<>>
              /\ executable = PackImage(Scenario2)
                    => exc' = "none" /\ ~running' /\ stdout' = <<65>>
              /\ executable = PackImage(Scenario3)
                    => exc' = "none" /\ ~running' /\ stdout' = <<0>>
      ]_vars

\* C14 witness: the image of scenario 3 has halted after writing one NUL
Scenario3Halted ==
    /\ executable = PackImage(Scenario3)
    /\ ~running
    /\ exc = "none"
    /\ stdout = <<0>>
    /\ instruction.op = 0

RECURSIVE Flatten(_)
Flatten(lines) ==
    IF lines = <<>> THEN <<>> ELSE Head(lines) \o Flatten(Tail(lines))

\* the characters not yet delivered: the buffered rest of the current line
\* followed by the lines still to be read
Pending == stdin \o Flatten(sysStdin)

\* C15: an in that executes writes the code of the first pending character to
\* its destination register and removes exactly that character; a line is
\* pulled from the source only when the buffer is empty; no other instruction
\* consumes input, so the delivered characters are those of the lines in order
InputLineBuffered ==
    [][ /\ (Decoded(20) /\ exc' = "none") =>
              /\ Pending # <<>>
              /\ registers'[decode.args[1] - 32768] = Head(Pending)
              /\ Pending' = Tail(Pending)
        /\ sysStdin' # sysStdin =>
              /\ Decoded(20)
              /\ stdin = <<>>
              /\ sysStdin' = Tail(sysStdin)
              /\ stdin' = Tail(Head(sysStdin))
        /\ ~Decoded(20) => UNCHANGED <<stdin, sysStdin>>
      ]_vars

\* C15 witness: the last in delivered the only character of the second line
\* after the two characters of the first
SecondLineDelivered ==
    /\ Completed(20)
    /\ sysStdin = <<>>
    /\ stdin = <<>>
    /\ registers[0] = 98
    /\ stdout = <<97, 10>>

\* C16: once halt has executed nothing is fetched or executed again, so
\* registers, memory, stack, pc and output keep their values for ever; the
\* halt step itself clears the running flag, advances pc by one and changes
\* nothing else
HaltedIsTerminal ==
    [][ /\ ~running => UNCHANGED <<registers, memory, stack, pc, stdout>>
        /\ Decoded(0) =>
              /\ ~running'
              /\ pc' = pc + 1
              /\ UNCHANGED <<registers, memory, stack, stdout, stdin,
                             sysStdin, exc>>
      ]_vars

\* C16 witness: halt has executed after other instructions changed the state
HaltExecuted ==
    /\ ~running
    /\ exc = "none"
    /\ instruction.op = 0
    /\ instruction.at > 0
    /\ pc = instruction.at + 1
    /\ registers # [r \in 0..7 |-> 0]

\* C17: a ret on a non-empty stack removes the top word and sets pc to the
\* popped word resolved once against the registers
RetResolvesOnce ==
    [][ (Decoded(18) /\ stack # <<>>) =>
            LET popped == stack[Len(stack)]
                target == getValueOrReg(registers, popped)
            IN  IF target.err = "none"
                THEN /\ exc' = "none"
                     /\ stack' = SubSeq(stack, 1, Len(stack) - 1)
                     /\ pc' = target.val
                ELSE exc' = target.err
      ]_vars

\* an instruction is fetched and raises
Fails == exc = "none" /\ exc' # "none"

\* C19 as stated: when an instruction fails, registers, memory, stack and pc
\* are what they were before it was fetched
FailureAtomicity ==
    [][ Fails => UNCHANGED <<registers, memory, stack, pc>> ]_vars

\* C19 as amended: when an instruction fails, registers, memory and pc are
\* what they were before it was fetched; the stack too, except that a failing
\* pop or ret on a non-empty stack has removed the top word and a failing
\* call has pushed the address of the next instruction
FailureLeavesStackEffect ==
    [][ Fails =>
          /\ UNCHANGED <<registers, memory, pc>>
          /\ stack' = CASE (Decoded(3) \/ Decoded(18)) /\ stack # <<>> ->
                               SubSeq(stack, 1, Len(stack) - 1)
                        [] Decoded(17) -> Append(stack, pc + 2)
                        [] OTHER -> stack
      ]_vars

\* C19 witness: a pop with an invalid destination has failed and the top of
\* the stack is gone
PopFailedAfterPopping ==
    /\ instruction.op = 3
    /\ instruction.args[1] \notin 32768..32775
    /\ exc = "NameError"
    /\ before.stack # <<>>
    /\ stack = SubSeq(before.stack, 1, Len(before.stack) - 1)
    /\ registers = before.registers
    /\ pc = instruction.at

\* the opcodes whose exec ends in setRegister, and those that use the stack
RegisterWriters == {1, 3, 4, 5, 9, 10, 11, 12, 13, 14, 15, 20}
Pushers == {2, 17}
Poppers == {3, 18}

\* C18: a register-writing instruction changes at most the register its raw
\* destination names; every other instruction changes no register; the stack
\* is changed only by push, pop, call and ret, which push or remove exactly
\* one element
RegisterAndStackFrame ==
    [][ /\ \A r \in 0..7 :
              registers'[r] # registers[r] =>
                  \E op \in RegisterWriters :
                      Decoded(op) /\ decode.args[1] = 32768 + r
        /\ DOMAIN registers' = 0..7
        /\ stack' # stack =>
              \/ /\ \E op \in Pushers : Decoded(op)
                 /\ Len(stack') = Len(stack) + 1
                 /\ SubSeq(stack', 1, Len(stack)) = stack
              \/ /\ \E op \in Poppers : Decoded(op)
                 /\ stack # <<>>
                 /\ stack' = SubSeq(stack, 1, Len(stack) - 1)
        /\ \A op \in Pushers \cup Poppers :
              (Decoded(op) /\ exc' = "none") => Len(stack') # Len(stack)
      ]_vars

\* C18 witness: a pop has written the popped word to its register and the
\* stack is one element shorter
PopWroteOneRegister ==
    /\ Completed(3)
    /\ registers # before.registers
    /\ Len(stack) = Len(before.stack) - 1
    /\ registers[instruction.args[1] - 32768] = before.stack[Len(before.stack)]

\* C20: mod with a zero divisor fails: nothing is stored, pc and all other
\* state keep their values, and no instruction is executed after the
\* failure; with a non-zero divisor the destination receives the remainder
\* of resolve(b) by resolve(c), which is less than resolve(c)
ModByZeroFails ==
    [][ /\ Decoded(11) =>
              LET b == getValueOrReg(registers, decode.args[2])
                  c == getValueOrReg(registers, decode.args[3])
                  a == decode.args[1] - 32768
              IN  (b.err = "none" /\ c.err = "none") =>
                      IF c.val = 0
                      THEN /\ exc' = "ZeroDivisionError"
                           /\ UNCHANGED <<registers, memory, stack, pc,
                                          running, stdout, stdin, sysStdin>>
                      ELSE a \in 0..7 =>
                             /\ exc' = "none"
                             /\ pc' = pc + 4
                             /\ registers'[a] \in 0..(c.val - 1)
                             /\ \E q \in 0..b.val :
                                    b.val = q * c.val + registers'[a]
        /\ exc = "ZeroDivisionError" => UNCHANGED vars
      ]_vars

\* C20 witness: a mod whose divisor resolved to zero has failed
ModDividedByZero ==
    /\ instruction.op = 11
    /\ exc = "ZeroDivisionError"
    /\ instruction.args[1] \in 32768..32775
    /\ getValueOrReg(registers, instruction.args[3]).val = 0
    /\ registers = before.registers
    /\ pc = instruction.at

====
